---------------------------- MODULE Spec2Model ----------------------------
(***************************************************************************)
(* Model of the upload bridge (main.py, upload_script.py): the request     *)
(* handler start_upload_process, the task builder, the path extractor, the *)
(* target path resolver, the upload executor and the result aggregation.   *)
(*                                                                         *)
(* Python strings on which the code does character work (startswith, in,   *)
(* upper, strip, basename, regular expressions) are sequences of one       *)
(* character strings. Values the code only compares or passes on           *)
(* (action_type, status, dictionary keys) are TLA+ strings.                *)
(***************************************************************************)
EXTENDS Integers, Sequences, FiniteSets, TLC

(***************************************************************************)
(* Bounds of the model.                                                    *)
(***************************************************************************)
\* longest products list of a request
MaxProducts == 2

(***************************************************************************)
(* Python values and string operations.                                    *)
(***************************************************************************)
\* Python's None: no string, since every string is a sequence of characters
None == <<"<None>">>

\* `not x` for a value that is None or a string
Falsy(x) == x = None \/ x = <<>>

MinOf(S) == CHOOSE m \in S : \A n \in S : m <= n

MaxOf(S) == CHOOSE m \in S : \A n \in S : m >= n

\* s.startswith(p)
StartsWith(s, p) == Len(p) <= Len(s) /\ SubSeq(s, 1, Len(p)) = p

\* s.endswith(p)
EndsWith(s, p) == Len(p) <= Len(s) /\ SubSeq(s, Len(s) - Len(p) + 1, Len(s)) = p

\* sub in s
Contains(s, sub) ==
    \E i \in 1..(Len(s) - Len(sub) + 1) : SubSeq(s, i, i + Len(sub) - 1) = sub

LowerLetters ==
    <<"a","b","c","d","e","f","g","h","i","j","k","l","m",
      "n","o","p","q","r","s","t","u","v","w","x","y","z">>

UpperLetters ==
    <<"A","B","C","D","E","F","G","H","I","J","K","L","M",
      "N","O","P","Q","R","S","T","U","V","W","X","Y","Z">>

UpperChar(c) ==
    IF \E i \in 1..26 : LowerLetters[i] = c
    THEN UpperLetters[CHOOSE i \in 1..26 : LowerLetters[i] = c]
    ELSE c

LowerChar(c) ==
    IF \E i \in 1..26 : UpperLetters[i] = c
    THEN LowerLetters[CHOOSE i \in 1..26 : UpperLetters[i] = c]
    ELSE c

\* s.upper()
Upper(s) == [i \in 1..Len(s) |-> UpperChar(s[i])]

\* s.lower()
Lower(s) == [i \in 1..Len(s) |-> LowerChar(s[i])]

\* s.strip(c) for a single character c
Strip(s, c) ==
    LET keep == {i \in 1..Len(s) : s[i] # c}
    IN  IF keep = {} THEN <<>> ELSE SubSeq(s, MinOf(keep), MaxOf(keep))

\* os.path.basename(p) on a POSIX host: what follows the last "/"
Basename(p) ==
    LET slashes == {i \in 1..Len(p) : p[i] = "/"}
    IN  IF slashes = {} THEN p ELSE SubSeq(p, MaxOf(slashes) + 1, Len(p))

\* os.path.join(a, b) on a POSIX host
PathJoin(a, b) ==
    IF StartsWith(b, <<"/">>) THEN b
    ELSE IF a = <<>> \/ EndsWith(a, <<"/">>) THEN a \o b
    ELSE a \o <<"/">> \o b

\* s.replace(old, new) for single characters
ReplaceChar(s, old, new) == [i \in 1..Len(s) |-> IF s[i] = old THEN new ELSE s[i]]

\* d.get(k) of a dictionary d
Get(d, k) == IF k \in DOMAIN d THEN d[k] ELSE None

\* d.get(k, default)
GetOr(d, k, default) == IF k \in DOMAIN d THEN d[k] ELSE default

\* number of entries of a list that satisfy nothing but equality with x
Count(seq, x) == Cardinality({i \in 1..Len(seq) : seq[i] = x})

(***************************************************************************)
(* Configuration tables (upload_script.py).                                *)
(***************************************************************************)
ST3 == <<"S","T","3">>

ST35 == <<"S","T","3","5">>

ST3_DEV == <<"S","T","3","_","D","E","V">>

ST3_PROD == <<"S","T","3","_","P","R","O","D">>

ST35_DEV == <<"S","T","3","5","_","D","E","V">>

ST35_PROD == <<"S","T","3","5","_","P","R","O","D">>

ST3_DEV_json == <<"S","T","3","_","D","E","V","_","j","s","o","n">>

ST3_PROD_json == <<"S","T","3","_","P","R","O","D","_","j","s","o","n">>

ST35_DEV_json == <<"S","T","3","5","_","D","E","V","_","j","s","o","n">>

ST35_PROD_json == <<"S","T","3","5","_","P","R","O","D","_","j","s","o","n">>

\* the product family base paths main.py imports from upload_script
PRODUCT_FAMILY_BASE_PATHS ==
    (ST3  :> <<"b","a","s","e","/","S","T","3","/">>) @@
    (ST35 :> <<"b","a","s","e","/","S","T","3","5","/">>)

PRODUCT_TO_ACTION_NAME_MAP ==
    (ST35_DEV :> << <<"S","T","3","5"," ","D","E","V"," ","S","O","P">>,
                    <<"S","T","3","5"," ","I","F","S">>,
                    <<"s","t","3","5"," ","s","o","p"," ","d","e","v">> >>) @@
    (ST35_PROD :> << <<"S","T","3","5"," ","P","R","O","D"," ","S","O","P">>,
                     <<"S","T","3","5"," ","I","F","S">>,
                     <<"s","t","3","5"," ","s","o","p"," ","p","r","o","d">> >>) @@
    (ST3_DEV :> << <<"S","T","3"," ","D","E","V"," ","S","O","P">>,
                   <<"S","T","3"," ","I","F","S">>,
                   <<"s","t","3"," ","s","o","p"," ","d","e","v">> >>) @@
    (ST3_PROD :> << <<"S","T","3"," "," ","P","R","O","D"," ","S","O","P">>,
                    <<"S","T","3"," ","I","F","S">>,
                    <<"s","t","3"," ","s","o","p"," ","p","r","o","d">> >>)

ConfigRoot ==
    <<"o","b","s",":","/","/","h","a","r","z","-","d","a","t","a","-","o","b","s","/",
      "v","e","r","t","i","c","a","l","_","v","e","r","s","i","o","n","/",
      "v","e","r","t","i","c","a","l","_","p","a","c","k","a","g","e","_",
      "c","o","n","f","i","g","/">>

TestJson == <<"/","t","e","s","t",".","j","s","o","n">>

FIXED_JSON_PATHS ==
    (ST3_DEV_json   :> ConfigRoot \o <<"S","T","3","_","d","e","v">> \o TestJson) @@
    (ST3_PROD_json  :> ConfigRoot \o <<"S","T","3","_","p","r","o","d">> \o TestJson) @@
    (ST35_DEV_json  :> ConfigRoot \o <<"S","T","3","5","_","d","e","v">> \o TestJson) @@
    (ST35_PROD_json :> ConfigRoot \o <<"S","T","3","5","_","p","r","o","d">> \o TestJson)

(***************************************************************************)
(* extract_task_id_from_url: re.search(r"/tasks/([a-f0-9]+)", url).        *)
(***************************************************************************)
HexChars == {"a","b","c","d","e","f","0","1","2","3","4","5","6","7","8","9"}

TasksPrefix == <<"/","t","a","s","k","s","/">>

\* extract_task_id_from_url whose pattern is /tasks/([^/]+): any identifier
extract_task_id_from_url_AnyId(url) ==
    LET starts == {i \in 1..Len(url) :
                      /\ i + 7 <= Len(url)
                      /\ SubSeq(url, i, i + 6) = TasksPrefix
                      /\ url[i + 7] # "/"}
    IN  IF starts = {} THEN None
        ELSE LET first == MinOf(starts) + 7
                 last  == MaxOf({j \in first..Len(url) :
                                    \A k \in first..j : url[k] # "/"})
             IN  SubSeq(url, first, last)

extract_task_id_from_url(url) ==
    LET starts == {i \in 1..Len(url) :
                      /\ i + 7 <= Len(url)
                      /\ SubSeq(url, i, i + 6) = TasksPrefix
                      /\ url[i + 7] \in HexChars}
    IN  IF starts = {} THEN None
        ELSE LET first == MinOf(starts) + 7
                 last  == MaxOf({j \in first..Len(url) :
                                    \A k \in first..j : url[k] \in HexChars})
             IN  SubSeq(url, first, last)

(***************************************************************************)
(* generate_dynamic_target_path                                            *)
(***************************************************************************)
\* generate_dynamic_target_path with StartsWith("ST3") tested before
\* StartsWith("ST35")
generate_dynamic_target_path_in_St3First(base_paths, product_key, date_version) ==
    LET family == IF StartsWith(product_key, ST3) THEN ST3
                  ELSE IF StartsWith(product_key, ST35) THEN ST35
                  ELSE None
        base_path == Get(base_paths, family)
        env_part == IF Contains(product_key, <<"D","E","V">>) THEN <<"d","e","v","/">>
                    ELSE IF Contains(product_key, <<"P","R","O","D">>)
                         THEN <<"p","r","o","d","/">>
                    ELSE None
        clean_date_version == Strip(date_version, "/")
    IN  IF Falsy(family) THEN None
        ELSE IF Falsy(base_path) THEN None
        ELSE IF Falsy(env_part) THEN None
        ELSE base_path \o env_part \o clean_date_version \o <<"/">>

\* the function body, the module-level table PRODUCT_FAMILY_BASE_PATHS it
\* reads being base_paths
generate_dynamic_target_path_in(base_paths, product_key, date_version) ==
    LET family == IF StartsWith(product_key, ST35) THEN ST35
                  ELSE IF StartsWith(product_key, ST3) THEN ST3
                  ELSE None
        base_path == Get(base_paths, family)
        env_part == IF Contains(product_key, <<"D","E","V">>) THEN <<"d","e","v","/">>
                    ELSE IF Contains(product_key, <<"P","R","O","D">>)
                         THEN <<"p","r","o","d","/">>
                    ELSE None
        clean_date_version == Strip(date_version, "/")
    IN  IF Falsy(family) THEN None
        ELSE IF Falsy(base_path) THEN None
        ELSE IF Falsy(env_part) THEN None
        ELSE base_path \o env_part \o clean_date_version \o <<"/">>

generate_dynamic_target_path(product_key, date_version) ==
    generate_dynamic_target_path_in(PRODUCT_FAMILY_BASE_PATHS, product_key, date_version)

(***************************************************************************)
(* extract_paths_from_action: an action is a record [proc_act_name,        *)
(* action_type, result], result a dictionary from field names to strings.  *)
(***************************************************************************)
\* the value of field k as a list: empty when the field is missing or empty
Collect(result_dict, k) ==
    IF Falsy(Get(result_dict, k)) THEN <<>> ELSE <<result_dict[k]>>

\* extract_paths_from_action with the IFS rule tried before the SOP rule
extract_paths_from_action_IfsFirst(proc_act_name, action, result_dict, product_key) ==
    IF Contains(Upper(proc_act_name), <<"I","F","S">>)
    THEN Collect(result_dict, "lib_obs_path")
         \o (IF EndsWith(product_key, <<"_","P","R","O","D">>)
             THEN Collect(result_dict, "config_obs_path")
             ELSE <<>>)
    ELSE IF /\ Contains(Upper(proc_act_name), <<"S","O","P">>)
            /\ Get(action, "action_type") = "harz_package_and_upload"
    THEN Collect(result_dict, "shadow_obs_path") \o Collect(result_dict, "package_obs_path")
    ELSE IF Contains(Lower(proc_act_name), <<" ","s","o","p"," ">>)
    THEN Collect(result_dict, "rvc_obs_path") \o Collect(result_dict, "config_obs_path")
    ELSE <<>>

\* extract_paths_from_action that takes every key with "_PROD" in it for a
\* PROD product
extract_paths_from_action_ProdAnywhere(proc_act_name, action, result_dict, product_key) ==
    IF /\ Contains(Upper(proc_act_name), <<"S","O","P">>)
       /\ Get(action, "action_type") = "harz_package_and_upload"
    THEN Collect(result_dict, "shadow_obs_path") \o Collect(result_dict, "package_obs_path")
    ELSE IF Contains(Upper(proc_act_name), <<"I","F","S">>)
    THEN Collect(result_dict, "lib_obs_path")
         \o (IF Contains(product_key, <<"_","P","R","O","D">>)
             THEN Collect(result_dict, "config_obs_path")
             ELSE <<>>)
    ELSE IF Contains(Lower(proc_act_name), <<" ","s","o","p"," ">>)
    THEN Collect(result_dict, "rvc_obs_path") \o Collect(result_dict, "config_obs_path")
    ELSE <<>>

\* extract_paths_from_action whose third rule looks for " sop " in the name
\* as written, without lowering it
extract_paths_from_action_SopAsWritten(proc_act_name, action, result_dict, product_key) ==
    IF /\ Contains(Upper(proc_act_name), <<"S","O","P">>)
       /\ Get(action, "action_type") = "harz_package_and_upload"
    THEN Collect(result_dict, "shadow_obs_path") \o Collect(result_dict, "package_obs_path")
    ELSE IF Contains(Upper(proc_act_name), <<"I","F","S">>)
    THEN Collect(result_dict, "lib_obs_path")
         \o (IF EndsWith(product_key, <<"_","P","R","O","D">>)
             THEN Collect(result_dict, "config_obs_path")
             ELSE <<>>)
    ELSE IF Contains(proc_act_name, <<" ","s","o","p"," ">>)
    THEN Collect(result_dict, "rvc_obs_path") \o Collect(result_dict, "config_obs_path")
    ELSE <<>>

extract_paths_from_action(proc_act_name, action, result_dict, product_key) ==
    IF /\ Contains(Upper(proc_act_name), <<"S","O","P">>)
       /\ Get(action, "action_type") = "harz_package_and_upload"
    THEN Collect(result_dict, "shadow_obs_path") \o Collect(result_dict, "package_obs_path")
    ELSE IF Contains(Upper(proc_act_name), <<"I","F","S">>)
    THEN Collect(result_dict, "lib_obs_path")
         \o (IF EndsWith(product_key, <<"_","P","R","O","D">>)
             THEN Collect(result_dict, "config_obs_path")
             ELSE <<>>)
    ELSE IF Contains(Lower(proc_act_name), <<" ","s","o","p"," ">>)
    THEN Collect(result_dict, "rvc_obs_path") \o Collect(result_dict, "config_obs_path")
    ELSE <<>>

(***************************************************************************)
(* build_upload_tasks                                                      *)
(***************************************************************************)
\* api_data.get("data", {}).get("action_task_list", [])
ActionList(api_data) == GetOr(GetOr(api_data, "data", <<>>), "action_task_list", <<>>)

\* x in list
InList(x, list) == \E i \in 1..Len(list) : list[i] = x

\* FoundPaths that stops at the first action the product recognizes
RECURSIVE FoundPaths_FirstMatch(_, _, _)
FoundPaths_FirstMatch(action_list, action_names, product_key) ==
    IF action_list = <<>> THEN <<>>
    ELSE LET action == Head(action_list)
         IN  IF InList(Get(action, "proc_act_name"), action_names)
             THEN extract_paths_from_action(action.proc_act_name, action,
                                            GetOr(action, "result", <<>>), product_key)
             ELSE FoundPaths_FirstMatch(Tail(action_list), action_names, product_key)

\* the paths of every action of the document the product recognizes
RECURSIVE FoundPaths(_, _, _)
FoundPaths(action_list, action_names, product_key) ==
    IF action_list = <<>> THEN <<>>
    ELSE LET action == Head(action_list)
         IN  (IF InList(Get(action, "proc_act_name"), action_names)
              THEN extract_paths_from_action(action.proc_act_name, action,
                                             GetOr(action, "result", <<>>), product_key)
              ELSE <<>>)
             \o FoundPaths(Tail(action_list), action_names, product_key)

\* ProductTasks with the test of the action name map moved before the test
\* of the fixed paths
ProductTasks_NamesFirst(action_list, product_key, date_version) ==
    LET target_path == generate_dynamic_target_path(product_key, date_version)
        action_names == GetOr(PRODUCT_TO_ACTION_NAME_MAP, product_key, <<>>)
        found == FoundPaths(action_list, action_names, product_key)
    IN  IF Falsy(target_path) THEN <<>>
        ELSE IF action_names = <<>> THEN <<>>
        ELSE IF product_key \in DOMAIN FIXED_JSON_PATHS
        THEN << [product_key |-> product_key,
                 obs_path |-> FIXED_JSON_PATHS[product_key],
                 target_path |-> target_path] >>
        ELSE [i \in 1..Len(found) |->
                 [product_key |-> product_key,
                  obs_path |-> found[i],
                  target_path |-> target_path]]

\* the tasks one requested product contributes (one pass of the loop)
ProductTasks(action_list, product_key, date_version) ==
    LET target_path == generate_dynamic_target_path(product_key, date_version)
        action_names == GetOr(PRODUCT_TO_ACTION_NAME_MAP, product_key, <<>>)
        found == FoundPaths(action_list, action_names, product_key)
    IN  IF Falsy(target_path) THEN <<>>
        ELSE IF product_key \in DOMAIN FIXED_JSON_PATHS
        THEN << [product_key |-> product_key,
                 obs_path |-> FIXED_JSON_PATHS[product_key],
                 target_path |-> target_path] >>
        ELSE IF action_names = <<>> THEN <<>>
        ELSE [i \in 1..Len(found) |->
                 [product_key |-> product_key,
                  obs_path |-> found[i],
                  target_path |-> target_path]]

RECURSIVE build_upload_tasks(_, _, _)
build_upload_tasks(api_data, requested_products, date_version) ==
    IF requested_products = <<>> THEN <<>>
    ELSE ProductTasks(ActionList(api_data), Head(requested_products), date_version)
         \o build_upload_tasks(api_data, Tail(requested_products), date_version)


(***************************************************************************)
(* execute_upload_tasks: the outcome of one task, given what the upload    *)
(* service answered. An answer is [kind |-> "response", status_code |-> n] *)
(* or [kind |-> "exception", text |-> e] (requests.post raised).           *)
(***************************************************************************)
result_detail(task, answer) ==
    IF answer.kind = "response" /\ answer.status_code = 200
    THEN [product |-> task.product_key, status |-> "success",
          message |-> [text |-> "upload succeeded"]]
    ELSE IF answer.kind = "response"
    THEN [product |-> task.product_key, status |-> "error",
          message |-> [text |-> "upload failed (status code)",
                       status_code |-> answer.status_code]]
    ELSE [product |-> task.product_key, status |-> "error",
          message |-> [text |-> "network request exception", exception |-> answer.text]]

\* UploadPending of a loop that stops at the first failed upload
UploadPending_StopOnError(tasks, results) ==
    /\ Len(results) < Len(tasks)
    /\ \A j \in 1..Len(results) : results[j].status = "success"

\* the loop `for task in tasks` has a task left to upload
UploadPending(tasks, results) == Len(results) < Len(tasks)

(***************************************************************************)
(* The result aggregation of start_upload_process.                         *)
(***************************************************************************)
\* [res for res in final_results if res['product'] == product_key]
RECURSIVE ResultsFor(_, _)
ResultsFor(final_results, product_key) ==
    IF final_results = <<>> THEN <<>>
    ELSE (IF Head(final_results).product = product_key
          THEN <<Head(final_results)>> ELSE <<>>)
         \o ResultsFor(Tail(final_results), product_key)

\* the full target paths of the successful results, in order
RECURSIVE SuccessfulFullPaths(_)
SuccessfulFullPaths(results) ==
    IF results = <<>> THEN <<>>
    ELSE LET res == Head(results)
             filename == Basename(GetOr(res, "obs_path", <<>>))
             full_target_path == PathJoin(GetOr(res, "target_path", <<>>), filename)
         IN  (IF res.status = "success" /\ filename # <<>>
              THEN <<ReplaceChar(full_target_path, "\\", "/")>>
              ELSE <<>>)
             \o SuccessfulFullPaths(Tail(results))

\* the failed results, as {obs_path, reason}
RECURSIVE FailedItems(_)
FailedItems(results) ==
    IF results = <<>> THEN <<>>
    ELSE LET res == Head(results)
         IN  (IF res.status = "success" THEN <<>>
              ELSE <<[obs_path |-> Get(res, "obs_path"), reason |-> Get(res, "message")]>>)
             \o FailedItems(Tail(results))

\* product_summary with the status taken from the successes alone: a product
\* counts as uploaded as soon as one of its files was
product_summary_AnySuccess(product_key, final_results) ==
    LET results_for_this_product == ResultsFor(final_results, product_key)
        successful_full_paths == SuccessfulFullPaths(results_for_this_product)
        failed_items == FailedItems(results_for_this_product)
    IN  IF results_for_this_product = <<>>
        THEN [product |-> product_key, status |-> "error",
              message |-> [text |-> "no upload task could be built"],
              uploaded_paths |-> successful_full_paths]
        ELSE IF Len(failed_items) = Len(results_for_this_product)
        THEN [product |-> product_key, status |-> "error",
              message |-> [text |-> "some files failed to upload",
                           success_count |-> Len(successful_full_paths),
                           error_count |-> Len(failed_items)],
              uploaded_paths |-> successful_full_paths,
              failed_files |-> failed_items]
        ELSE [product |-> product_key, status |-> "success",
              message |-> [text |-> "all uploaded", files |-> Len(successful_full_paths)],
              uploaded_paths |-> successful_full_paths]

\* product_summary without the test for a product that has no result at all
product_summary_NoEmptyCase(product_key, final_results) ==
    LET results_for_this_product == ResultsFor(final_results, product_key)
        successful_full_paths == SuccessfulFullPaths(results_for_this_product)
        failed_items == FailedItems(results_for_this_product)
    IN  IF failed_items # <<>>
        THEN [product |-> product_key, status |-> "error",
              message |-> [text |-> "some files failed to upload",
                           success_count |-> Len(successful_full_paths),
                           error_count |-> Len(failed_items)],
              uploaded_paths |-> successful_full_paths,
              failed_files |-> failed_items]
        ELSE [product |-> product_key, status |-> "success",
              message |-> [text |-> "all uploaded", files |-> Len(successful_full_paths)],
              uploaded_paths |-> successful_full_paths]

product_summary(product_key, final_results) ==
    LET results_for_this_product == ResultsFor(final_results, product_key)
        successful_full_paths == SuccessfulFullPaths(results_for_this_product)
        failed_items == FailedItems(results_for_this_product)
    IN  IF results_for_this_product = <<>>
        THEN [product |-> product_key, status |-> "error",
              message |-> [text |-> "no upload task could be built"],
              uploaded_paths |-> successful_full_paths]
        ELSE IF failed_items # <<>>
        THEN [product |-> product_key, status |-> "error",
              message |-> [text |-> "some files failed to upload",
                           success_count |-> Len(successful_full_paths),
                           error_count |-> Len(failed_items)],
              uploaded_paths |-> successful_full_paths,
              failed_files |-> failed_items]
        ELSE [product |-> product_key, status |-> "success",
              message |-> [text |-> "all uploaded", files |-> Len(successful_full_paths)],
              uploaded_paths |-> successful_full_paths]

aggregated_results_list(final_results, products) ==
    [i \in 1..Len(products) |-> product_summary(products[i], final_results)]


(***************************************************************************)
(* The inputs of the model: requests, pipeline documents, answers of the   *)
(* two external services.                                                  *)
(***************************************************************************)
\* a key of no product family
ST4_DEV == <<"S","T","4","_","D","E","V">>

\* a key of family ST3 that names no environment
ST3_TEST == <<"S","T","3","_","T","E","S","T">>

\* a key with a target path that is neither fixed-path nor in the action name map
ST3_DEV_v2 == <<"S","T","3","_","D","E","V","_","v","2">>

RequestKeys == {ST3_DEV, ST3_DEV_json, ST4_DEV, ST3_TEST, ST3_DEV_v2}

\* the lists of at most n elements of S
RECURSIVE SeqsUpTo(_, _)
SeqsUpTo(S, n) ==
    IF n = 0 THEN {<<>>}
    ELSE LET shorter == SeqsUpTo(S, n - 1)
         IN  shorter \cup {Append(q, x) : q \in {r \in shorter : Len(r) = n - 1}, x \in S}

ProductLists == SeqsUpTo(RequestKeys, MaxProducts)

PipelineUrls ==
    { <<>>,
      <<"e","p","/","t","a","s","k","s","/","x","9">>,
      <<"e","p","/","t","a","s","k","s","/","a","1","/","l","o","g">> }

DateVersions == { <<"/","d","1","/">> }

Token1 == <<"t","1">>

CustomTokens == {None, <<" ">>, Token1}

StoredTokens == {None, Token1}

SopAction ==
    [proc_act_name |-> <<"S","T","3"," ","D","E","V"," ","S","O","P">>,
     action_type |-> "harz_package_and_upload",
     result |-> [shadow_obs_path |-> <<"o","/","s">>, package_obs_path |-> <<>>,
                 lib_obs_path |-> <<"o","/","n">>]]

IfsAction ==
    [proc_act_name |-> <<"S","T","3"," ","I","F","S">>,
     action_type |-> "build",
     result |-> [lib_obs_path |-> <<"o","/","l">>, config_obs_path |-> <<"o","/","c">>]]

OtherAction ==
    [proc_act_name |-> <<"S","T","3","5"," ","I","F","S">>,
     action_type |-> "build",
     result |-> [lib_obs_path |-> <<"o","/","m">>]]

Doc(actions) == [data |-> [action_task_list |-> actions]]

\* the empty dictionary {}
EmptyDict == <<>>

PipelineDocs == {EmptyDict, Doc(<<SopAction, IfsAction>>), Doc(<<OtherAction, IfsAction>>)}

\* what requests.get and raise_for_status can do (main.py 218-230)
PipelineOutcomes ==
    [kind : {"json"}, doc : PipelineDocs]
    \cup {[kind |-> "timeout"], [kind |-> "exception", text |-> "ConnectionError"]}
    \cup [kind : {"http_error"}, status_code : {401, 403, 500}]

\* what requests.post can do (upload_script.py 81)
UploadAnswers ==
    [kind : {"response"}, status_code : {200, 500}]
    \cup {[kind |-> "exception", text |-> "ReadTimeout"]}

Requests ==
    [pipeline_url : PipelineUrls, date_version : DateVersions,
     custom_token : CustomTokens, products : ProductLists]

NoRequest ==
    [pipeline_url |-> <<>>, date_version |-> <<>>, custom_token |-> None, products |-> <<>>]

(***************************************************************************)
(* The state.                                                              *)
(***************************************************************************)
VARIABLES
    environ,          \* os.getenv("EP_API_TOKEN") of the running process, or None
    dotenv_file,      \* EP_API_TOKEN in the .env file, or None
    dotenv_writes,    \* what set_key wrote to .env during this request, each
                      \* as [token, replaced]: the token written, the one it
                      \* took the place of
    pc,               \* the handler's state (spec 4.6)
    request,          \* the UploadRequest being handled
    token_for_this_request,
    api_data,         \* the pipeline document
    upload_tasks,     \* build_upload_tasks' list
    upload_results,   \* execute_upload_tasks' list, final_results of the handler
    ep_calls,         \* the calls made to the pipeline API, [task_id, token]
    ep_answers,       \* what the pipeline API answered to each of them
    upload_calls,     \* the payloads posted to the upload service
    upload_answers,   \* what the upload service answered to each of them
    response,         \* the list the handler returns
    http_error,       \* the status code of the HTTPException raised, or 0
    prev,             \* the previous request and its result, when the client sent
                      \* the request again with one more product
    call,             \* the arguments of a function called on its own
    returned          \* what that function returned

vars == <<environ, dotenv_file, dotenv_writes, pc, request, token_for_this_request, api_data,
          upload_tasks, upload_results, ep_calls, ep_answers, upload_calls,
          upload_answers, response, http_error, prev, call, returned>>

\* what a request leaves behind in the handler
scratch == <<dotenv_writes, token_for_this_request, api_data, upload_tasks, upload_results,
             ep_calls, ep_answers, upload_calls, upload_answers, response, http_error>>

\* the state of the functions called on their own
harness == <<call, returned>>

NoPrev == [pc |-> "None"]

NoCall == [fn |-> "None"]

NotReturned == [done |-> FALSE]

\* no request is being handled
HandlerIdle ==
    /\ pc = "Idle"
    /\ request = NoRequest
    /\ dotenv_writes = <<>>
    /\ token_for_this_request = None
    /\ api_data = EmptyDict
    /\ upload_tasks = <<>>
    /\ upload_results = <<>>
    /\ ep_calls = <<>>
    /\ ep_answers = <<>>
    /\ upload_calls = <<>>
    /\ upload_answers = <<>>
    /\ response = <<>>
    /\ http_error = 0
    /\ prev = NoPrev

Init ==
    /\ environ \in StoredTokens
    /\ dotenv_file = environ
    /\ HandlerIdle
    /\ call = NoCall
    /\ returned = NotReturned

(***************************************************************************)
(* start_upload_process, one action per state of the handler.              *)
(***************************************************************************)
\* new_token_provided without the strip(): a blank token counts as given
new_token_provided_NoStrip(custom_token) == ~Falsy(custom_token)

\* request.custom_token and request.custom_token.strip()
new_token_provided(custom_token) ==
    ~Falsy(custom_token) /\ ~Falsy(Strip(custom_token, " "))

\* the token the request uses: the caller's when provided, else the environment's
ResolveToken(custom_token, current_token_from_env) ==
    IF new_token_provided(custom_token) THEN custom_token ELSE current_token_from_env

\* dynamic_products_requested that is true of every request with a product
dynamic_products_requested_Any(products) == products # <<>>

\* update_env_token: set_key writes the new token to the .env file, or an
\* exception is caught and the file keeps its token.
update_env_token(new_token, file_token) ==
    {[written |-> TRUE, file |-> new_token], [written |-> FALSE, file |-> file_token]}

\* any(p not in FIXED_JSON_PATHS for p in request.products)
dynamic_products_requested(products) ==
    \E i \in 1..Len(products) : products[i] \notin DOMAIN FIXED_JSON_PATHS

\* [x for x in seq if x not in FIXED_JSON_PATHS]
RECURSIVE NotFixed(_)
NotFixed(products) ==
    IF products = <<>> THEN <<>>
    ELSE (IF Head(products) \notin DOMAIN FIXED_JSON_PATHS
          THEN <<Head(products)>> ELSE <<>>)
         \o NotFixed(Tail(products))

\* the list returned when dynamic products are requested without a pipeline URL
MissingUrlErrors(products) ==
    LET dynamic == NotFixed(products)
    IN  [i \in 1..Len(dynamic) |->
            [product |-> dynamic[i], status |-> "error",
             message |-> [text |-> "dynamic paths need a pipeline URL, none given"]]]

\* the list returned when the pipeline API call raises another exception
ApiFailureErrors(products, text) ==
    [i \in 1..Len(products) |->
        [product |-> products[i], status |-> "error",
         message |-> [text |-> "EP API call failed", exception |-> text]]]

\* a request arrives
Receive(req) ==
    /\ pc = "Idle"
    /\ pc' = "Authenticating"
    /\ request' = req
    /\ UNCHANGED <<environ, dotenv_file, scratch, prev, harness>>

\* main.py 177-204: the token of the request, the .env update, the 401
Authenticate ==
    /\ pc = "Authenticating"
    /\ LET current_token_from_env == environ
           token == ResolveToken(request.custom_token, current_token_from_env)
       IN  /\ token_for_this_request' = token
           /\ IF new_token_provided(request.custom_token) /\ token # current_token_from_env
              THEN \E outcome \in update_env_token(token, dotenv_file) :
                      /\ dotenv_file' = outcome.file
                      /\ dotenv_writes' =
                            IF outcome.written
                            THEN Append(dotenv_writes,
                                        [token |-> token, replaced |-> dotenv_file])
                            ELSE dotenv_writes
              ELSE UNCHANGED <<dotenv_file, dotenv_writes>>
           /\ IF Falsy(token)
              THEN http_error' = 401 /\ pc' = "Failed"
              ELSE /\ http_error' = http_error
                   /\ pc' = IF dynamic_products_requested(request.products)
                            THEN "FetchingPipelineData"
                            ELSE "BuildingTasks"
    /\ UNCHANGED <<environ, request, api_data, upload_tasks, upload_results,
                   ep_calls, ep_answers, upload_calls, upload_answers, response,
                   prev, harness>>

\* AfterFetch with the last except clause logging the exception and going on
AfterFetch_ExceptionSwallowed(outcome) ==
    IF outcome.kind \in {"json", "exception"} THEN "BuildingTasks" ELSE "Failed"

\* main.py 216-230: the try block falls through to line 234, every except
\* clause raises or returns
AfterFetch(outcome) ==
    IF outcome.kind = "json" THEN "BuildingTasks" ELSE "Failed"

\* main.py 205-230: the pipeline URL checks and the pipeline API call
FetchPipelineData ==
    /\ pc = "FetchingPipelineData"
    /\ LET task_id == extract_task_id_from_url(request.pipeline_url)
       IN  IF Falsy(request.pipeline_url)
           THEN /\ response' = MissingUrlErrors(request.products)
                /\ pc' = "Failed"
                /\ UNCHANGED <<api_data, ep_calls, ep_answers, http_error>>
           ELSE IF Falsy(task_id)
           THEN /\ http_error' = 400
                /\ pc' = "Failed"
                /\ UNCHANGED <<api_data, ep_calls, ep_answers, response>>
           ELSE /\ ep_calls' = Append(ep_calls, [task_id |-> task_id,
                                                 token |-> token_for_this_request])
                /\ \E outcome \in PipelineOutcomes :
                      /\ ep_answers' = Append(ep_answers, outcome)
                      /\ \/ /\ outcome.kind = "json"
                            /\ api_data' = outcome.doc
                            /\ pc' = AfterFetch(outcome)
                            /\ UNCHANGED <<response, http_error>>
                         \/ /\ outcome.kind = "timeout"
                            /\ http_error' = 504
                            /\ pc' = AfterFetch(outcome)
                            /\ UNCHANGED <<api_data, response>>
                         \/ /\ outcome.kind = "http_error"
                            /\ http_error' = outcome.status_code
                            /\ pc' = AfterFetch(outcome)
                            /\ UNCHANGED <<api_data, response>>
                         \/ /\ outcome.kind = "exception"
                            /\ response' = ApiFailureErrors(request.products, outcome.text)
                            /\ pc' = AfterFetch(outcome)
                            /\ UNCHANGED <<api_data, http_error>>
    /\ UNCHANGED <<environ, dotenv_file, dotenv_writes, request, token_for_this_request,
                   upload_tasks, upload_results, upload_calls, upload_answers,
                   prev, harness>>

\* main.py 234
BuildTasks ==
    /\ pc = "BuildingTasks"
    /\ upload_tasks' = build_upload_tasks(api_data, request.products, request.date_version)
    /\ pc' = "Uploading"
    /\ UNCHANGED <<environ, dotenv_file, dotenv_writes, request, token_for_this_request, api_data,
                   upload_results, ep_calls, ep_answers, upload_calls, upload_answers,
                   response, http_error, prev, harness>>

\* upload_script.py 67-104: one pass of the loop of execute_upload_tasks
UploadTask ==
    /\ pc = "Uploading"
    /\ UploadPending(upload_tasks, upload_results)
    /\ LET task == upload_tasks[Len(upload_results) + 1]
           payload == [obs_path |-> task.obs_path, target_path |-> task.target_path]
       IN  \E answer \in UploadAnswers :
              /\ upload_calls' = Append(upload_calls, payload)
              /\ upload_answers' = Append(upload_answers, answer)
              /\ upload_results' = Append(upload_results, result_detail(task, answer))
    /\ UNCHANGED <<environ, dotenv_file, dotenv_writes, pc, request, token_for_this_request, api_data,
                   upload_tasks, ep_calls, ep_answers, response, http_error,
                   prev, harness>>

\* upload_script.py 63-65, 106: execute_upload_tasks returns
UploadsDone ==
    /\ pc = "Uploading"
    /\ ~UploadPending(upload_tasks, upload_results)
    /\ pc' = "Aggregating"
    /\ UNCHANGED <<environ, dotenv_file, request, scratch, prev, harness>>

\* main.py 245-310
Aggregate ==
    /\ pc = "Aggregating"
    /\ response' = aggregated_results_list(upload_results, request.products)
    /\ pc' = "Done"
    /\ UNCHANGED <<environ, dotenv_file, dotenv_writes, request, token_for_this_request, api_data,
                   upload_tasks, upload_results, ep_calls, ep_answers, upload_calls,
                   upload_answers, http_error, prev, harness>>

\* the response is sent; the service waits for the next request
Finish ==
    /\ pc \in {"Done", "Failed"}
    /\ pc' = "Idle"
    /\ request' = NoRequest
    /\ dotenv_writes' = <<>>
    /\ token_for_this_request' = None
    /\ api_data' = EmptyDict
    /\ upload_tasks' = <<>>
    /\ upload_results' = <<>>
    /\ ep_calls' = <<>>
    /\ ep_answers' = <<>>
    /\ upload_calls' = <<>>
    /\ upload_answers' = <<>>
    /\ response' = <<>>
    /\ http_error' = 0
    /\ prev' = NoPrev
    /\ UNCHANGED <<environ, dotenv_file, harness>>

Next ==
    \/ \E req \in Requests : Receive(req)
    \/ Authenticate
    \/ FetchPipelineData
    \/ BuildTasks
    \/ UploadTask
    \/ UploadsDone
    \/ Aggregate
    \/ Finish

Spec == Init /\ [][Next]_vars


(***************************************************************************)
(* Properties of the handler, checked under Spec.                          *)
(***************************************************************************)
\* the handler has returned a list (it raised no HTTPException)
ReturnedList == pc \in {"Done", "Failed"} /\ http_error = 0

\* the positions of the outcomes of product k
OutcomesOf(k) == {j \in 1..Len(upload_results) : upload_results[j].product = k}

NoTasksText == "no upload task could be built"

\* C1: whenever the handler returns a list, the list has one entry per
\* element of request.products, in request order.
C1_OneEntryPerProduct ==
    ReturnedList =>
        /\ Len(response) = Len(request.products)
        /\ \A i \in 1..Len(response) : response[i].product = request.products[i]

\* C2: a product's summary has status success exactly when the product has
\* at least one outcome and none of them failed; with no outcome it is an
\* error with the "no tasks" message, with a failed outcome it is an error.
C2_StatusOfSummary ==
    pc = "Done" =>
        \A i \in 1..Len(request.products) :
            LET outs == OutcomesOf(request.products[i])
                failed == {j \in outs : upload_results[j].status # "success"}
            IN  /\ response[i].status = "success" <=> (outs # {} /\ failed = {})
                /\ outs = {} => /\ response[i].status = "error"
                                /\ response[i].message.text = NoTasksText
                /\ failed # {} => response[i].status = "error"

\* C2 witness: a finished request with a successful product and a product
\* that has a successful and a failed upload
C2_Witness ==
    /\ pc = "Done"
    /\ \E i \in 1..Len(response) : response[i].status = "success"
    /\ \E i \in 1..Len(response) :
          /\ response[i].status = "error"
          /\ \E j, k \in OutcomesOf(request.products[i]) :
                /\ upload_results[j].status = "success"
                /\ upload_results[k].status = "error"


\* the positions of the tasks built for product k
TasksOf(k) == {j \in 1..Len(upload_tasks) : upload_tasks[j].product_key = k}

\* build_upload_tasks has run for the request
TasksBuilt == pc \in {"Uploading", "Aggregating", "Done"}

\* 200 was the answer to upload j
Answered200(j) ==
    upload_answers[j].kind = "response" /\ upload_answers[j].status_code = 200

\* C3: after a run of the executor and the aggregation, uploaded_paths of
\* each product holds one full path (target folder joined with the basename
\* of the source) per successful upload of the product, and nothing else.
C3_UploadedPaths ==
    pc = "Done" =>
        \A i \in 1..Len(request.products) :
            LET ok == {j \in TasksOf(request.products[i]) : Answered200(j)}
            IN  /\ Len(response[i].uploaded_paths) = Cardinality(ok)
                /\ {response[i].uploaded_paths[n] :
                       n \in 1..Len(response[i].uploaded_paths)}
                   = {PathJoin(upload_tasks[j].target_path,
                               Basename(upload_tasks[j].obs_path)) : j \in ok}

\* the keys of RequestKeys that are not configured: no family, no
\* environment, no action names
UnconfiguredKeys == {ST4_DEV, ST3_TEST, ST3_DEV_v2}

\* C5: a product key that is not configured gets no task, whatever the API
\* document, and its summary is an error with the "no tasks" message.
C5_UnconfiguredKey ==
    \A i \in 1..Len(request.products) :
        request.products[i] \in UnconfiguredKeys =>
            /\ TasksBuilt => TasksOf(request.products[i]) = {}
            /\ pc = "Done" => /\ response[i].status = "error"
                              /\ response[i].message.text = NoTasksText

\* C5 witness: a request with an unconfigured key and a configured one is
\* done, tasks were built from a document with actions
C5_Witness ==
    /\ pc = "Done"
    /\ ActionList(api_data) # <<>>
    /\ upload_tasks # <<>>
    /\ \E i \in 1..Len(request.products) : request.products[i] \in UnconfiguredKeys

\* C6: each request of a fixed-path product key yields exactly one task for
\* the key, with the hardcoded path as its source, whatever the API document.
C6_FixedPathTask ==
    TasksBuilt =>
        \A k \in DOMAIN FIXED_JSON_PATHS :
            /\ Cardinality(TasksOf(k)) = Count(request.products, k)
            /\ \A j \in TasksOf(k) : upload_tasks[j].obs_path = FIXED_JSON_PATHS[k]

\* C6 witness: tasks are built for a fixed-path product from a document whose
\* actions belong to other products
C6_Witness ==
    /\ TasksBuilt
    /\ Cardinality(TasksOf(ST3_DEV_json)) = 1
    /\ api_data = Doc(<<OtherAction, IfsAction>>)


\* every requested product is a fixed-path product
AllFixed == \A i \in 1..Len(request.products) :
                request.products[i] \in DOMAIN FIXED_JSON_PATHS

\* the request has left Idle
Handling == pc # "Idle"

\* a non-blank caller-supplied token or a stored token is available
TokenAvailable ==
    \/ environ # None /\ environ # <<>>
    \/ request.custom_token \notin {None, <<>>, <<" ">>}

\* every upload of the request was answered 200
AllAnswered200 == \A j \in 1..Len(upload_answers) : Answered200(j)

\* C7 as stated: a request for fixed-path products only never enters
\* FetchingPipelineData and never calls the pipeline API, whatever its
\* pipeline URL; it ends in Done and, when the upload service answers 200,
\* with a success summary per product.
C7_FixedOnlyAlwaysDone ==
    (Handling /\ AllFixed) =>
        /\ pc # "FetchingPipelineData"
        /\ ep_calls = <<>>
        /\ pc \in {"Done", "Failed"} =>
              /\ pc = "Done"
              /\ AllAnswered200 =>
                    /\ Len(response) = Len(request.products)
                    /\ \A i \in 1..Len(response) : response[i].status = "success"

\* C7 amended: the same, for a request that has a usable token (a non-blank
\* caller-supplied token or a stored one); without one it ends in Failed (401).
C7_FixedOnlyDoneWithToken ==
    (Handling /\ AllFixed) =>
        /\ pc # "FetchingPipelineData"
        /\ ep_calls = <<>>
        /\ (pc \in {"Done", "Failed"} /\ TokenAvailable) =>
              /\ pc = "Done"
              /\ AllAnswered200 =>
                    /\ Len(response) = Len(request.products)
                    /\ \A i \in 1..Len(response) : response[i].status = "success"
        /\ (pc \in {"Done", "Failed"} /\ ~TokenAvailable) =>
              pc = "Failed" /\ http_error = 401

\* C7 witness: products = ["ST3_DEV_json"] with a pipeline URL that cannot be
\* parsed is done with one success summary
C7_Witness ==
    /\ pc = "Done"
    /\ request.products = <<ST3_DEV_json>>
    /\ extract_task_id_from_url(request.pipeline_url) = None
    /\ request.pipeline_url # <<>>
    /\ Len(response) = 1
    /\ response[1].status = "success"
    /\ ep_calls = <<>>

\* C8: the executor posts one upload per task, in task order, and returns
\* one outcome per task in the same order; a response other than 200 or an
\* exception makes the outcome of that task an error and the later tasks
\* are still uploaded.
C8_OneOutcomePerTask ==
    /\ Len(upload_calls) = Len(upload_results)
    /\ Len(upload_answers) = Len(upload_results)
    /\ Len(upload_results) <= Len(upload_tasks)
    /\ \A j \in 1..Len(upload_results) :
          /\ upload_calls[j] = [obs_path |-> upload_tasks[j].obs_path,
                                target_path |-> upload_tasks[j].target_path]
          /\ upload_results[j].product = upload_tasks[j].product_key
          /\ upload_results[j].status = (IF Answered200(j) THEN "success" ELSE "error")
    /\ pc \in {"Aggregating", "Done"} => Len(upload_results) = Len(upload_tasks)

\* C8 witness: the executor has returned; the first upload got a 500, the
\* second raised, the third succeeded
C8_Witness ==
    /\ pc = "Aggregating"
    /\ Len(upload_tasks) >= 3
    /\ upload_answers[1] = [kind |-> "response", status_code |-> 500]
    /\ upload_answers[2].kind = "exception"
    /\ upload_results[3].status = "success"


(***************************************************************************)
(* extract_paths_from_action called on its own, on every action of         *)
(* ExtractCalls.                                                           *)
(***************************************************************************)
Name_ST3_DEV_SOP == <<"S","T","3"," ","D","E","V"," ","S","O","P">>

Name_ST3_IFS == <<"S","T","3"," ","I","F","S">>

Name_st3_sop_dev == <<"s","t","3"," ","s","o","p"," ","d","e","v">>

Name_ifs_sop_x == <<"i","f","s"," ","s","o","p"," ","x">>

Name_Sop == <<"S","o","p">>

Name_Ifs_lib == <<"I","f","s"," ","l","i","b">>

Name_a_SOP_b == <<"a"," ","S","O","P"," ","b">>

Name_build == <<"b","u","i","l","d">>

ExtractNames ==
    {Name_ST3_DEV_SOP, Name_ST3_IFS, Name_st3_sop_dev, Name_ifs_sop_x, Name_Sop,
     Name_Ifs_lib, Name_a_SOP_b, Name_build}

ResultFields ==
    {"shadow_obs_path", "package_obs_path", "lib_obs_path", "config_obs_path",
     "rvc_obs_path"}

FieldValue ==
    [shadow_obs_path |-> <<"s">>, package_obs_path |-> <<"p">>, lib_obs_path |-> <<"l">>,
     config_obs_path |-> <<"c">>, rvc_obs_path |-> <<"r">>]

\* every result dictionary: each field missing, empty or set
ResultDicts ==
    UNION {{[f \in D |-> IF f \in E THEN <<>> ELSE FieldValue[f]] : E \in SUBSET D} :
              D \in SUBSET ResultFields}

ActionTypes == {"harz_package_and_upload", "build"}

ExtractKeys == {ST3_DEV, ST3_PROD, ST3_PROD_json, ST35_PROD}

ExtractCalls ==
    [fn : {"extract_paths_from_action"}, proc_act_name : ExtractNames,
     action_type : ActionTypes, result : ResultDicts, product_key : ExtractKeys]

InitExtract ==
    /\ environ = None
    /\ dotenv_file = None
    /\ HandlerIdle
    /\ call \in ExtractCalls
    /\ returned = NotReturned

Extract ==
    /\ call.fn = "extract_paths_from_action"
    /\ ~returned.done
    /\ returned' =
          [done |-> TRUE,
           value |-> extract_paths_from_action(
                         call.proc_act_name,
                         [proc_act_name |-> call.proc_act_name,
                          action_type |-> call.action_type,
                          result |-> call.result],
                         call.result, call.product_key)]
    /\ UNCHANGED <<environ, dotenv_file, pc, request, scratch, prev, call>>

NextExtract == Extract

SpecExtract == InitExtract /\ [][NextExtract]_vars

\* the names of ExtractNames with "SOP" in them, in any case
SopNames == {Name_ST3_DEV_SOP, Name_st3_sop_dev, Name_ifs_sop_x, Name_Sop, Name_a_SOP_b}

\* the names of ExtractNames with "IFS" in them, in any case
IfsNames == {Name_ST3_IFS, Name_ifs_sop_x, Name_Ifs_lib}

\* the keys of ExtractKeys that end with "_PROD"
ProdKeys == {ST3_PROD, ST35_PROD}

\* the value of a result field as a list, when the field is there and not empty
Present(result, f) ==
    IF f \in DOMAIN result /\ result[f] # <<>> THEN <<result[f]>> ELSE <<>>

ExtractReturned == returned.done /\ call.fn = "extract_paths_from_action"

\* C9: for an action with SOP in its name (any case) and action_type
\* harz_package_and_upload, the extractor returns the non-empty
\* shadow_obs_path then the non-empty package_obs_path, and no lib, rvc or
\* config path, whatever the product key and the other rules the name matches.
C9_SopRule ==
    (/\ ExtractReturned
     /\ call.proc_act_name \in SopNames
     /\ call.action_type = "harz_package_and_upload") =>
        /\ returned.value = Present(call.result, "shadow_obs_path")
                            \o Present(call.result, "package_obs_path")
        /\ \A n \in 1..Len(returned.value) :
              returned.value[n] \notin {FieldValue.lib_obs_path, FieldValue.rvc_obs_path,
                                        FieldValue.config_obs_path}

\* C9 witness: a name that matches all three rules, every field set
C9_Witness ==
    /\ ExtractReturned
    /\ call.proc_act_name = Name_ifs_sop_x
    /\ call.action_type = "harz_package_and_upload"
    /\ call.result = FieldValue
    /\ returned.value = << <<"s">>, <<"p">> >>

\* C10: for an action the IFS rule handles (IFS in its name, in any case,
\* and rule 1 does not match), the extractor returns the non-empty
\* lib_obs_path, followed by the non-empty config_obs_path exactly when the
\* product key ends with "_PROD".
C10_IfsRule ==
    (/\ ExtractReturned
     /\ call.proc_act_name \in IfsNames
     /\ ~(call.proc_act_name \in SopNames
          /\ call.action_type = "harz_package_and_upload")) =>
        returned.value = Present(call.result, "lib_obs_path")
                         \o (IF call.product_key \in ProdKeys
                             THEN Present(call.result, "config_obs_path")
                             ELSE <<>>)

\* C10 witness: "ST3 IFS" for ST3_PROD_json, lib and config set, returns lib alone
C10_Witness ==
    /\ ExtractReturned
    /\ call.proc_act_name = Name_ST3_IFS
    /\ call.product_key = ST3_PROD_json
    /\ call.result = FieldValue
    /\ returned.value = << <<"l">> >>


(***************************************************************************)
(* The same request sent twice, the second time with one more product key, *)
(* an unconfigured one: the result of the first is kept in prev.           *)
(***************************************************************************)
InsertAt(seq, pos, x) == SubSeq(seq, 1, pos - 1) \o <<x>> \o SubSeq(seq, pos, Len(seq))

Resubmit(key, pos) ==
    /\ pc \in {"Done", "Failed"}
    /\ prev = NoPrev
    /\ request.products # <<>>
    /\ Len(request.products) < MaxProducts
    /\ pos \in 1..(Len(request.products) + 1)
    /\ prev' = [pc |-> pc, request |-> request, response |-> response,
                http_error |-> http_error, ep_answers |-> ep_answers,
                upload_calls |-> upload_calls, upload_answers |-> upload_answers,
                added |-> key]
    /\ request' = [request EXCEPT !.products = InsertAt(@, pos, key)]
    /\ pc' = "Authenticating"
    /\ dotenv_writes' = <<>>
    /\ token_for_this_request' = None
    /\ api_data' = EmptyDict
    /\ upload_tasks' = <<>>
    /\ upload_results' = <<>>
    /\ ep_calls' = <<>>
    /\ ep_answers' = <<>>
    /\ upload_calls' = <<>>
    /\ upload_answers' = <<>>
    /\ response' = <<>>
    /\ http_error' = 0
    /\ UNCHANGED <<environ, dotenv_file, harness>>

NextPair ==
    \/ Next
    \/ \E key \in UnconfiguredKeys, pos \in 1..MaxProducts : Resubmit(key, pos)

SpecPair == Init /\ [][NextPair]_vars

\* the entries of a returned list that are about other products than key
RECURSIVE EntriesOfOthers(_, _)
EntriesOfOthers(list, key) ==
    IF list = <<>> THEN <<>>
    ELSE (IF Head(list).product = key THEN <<>> ELSE <<Head(list)>>)
         \o EntriesOfOthers(Tail(list), key)

\* the two services answered the second request as they answered the first
SameAnswers ==
    /\ (ep_answers # <<>> /\ prev.ep_answers # <<>>) => ep_answers = prev.ep_answers
    /\ \A j \in 1..Len(upload_answers) :
          j <= Len(prev.upload_answers) => upload_answers[j] = prev.upload_answers[j]

\* C4: an unusable product key added to a request changes neither the
\* uploads issued nor the summaries of the other products, and makes the
\* request neither an HTTP error nor an early error return.
C4_UnusableKeyHarmless ==
    (prev # NoPrev /\ pc \in {"Done", "Failed"} /\ SameAnswers) =>
        /\ http_error = prev.http_error
        /\ pc = prev.pc
        /\ upload_calls = prev.upload_calls
        /\ EntriesOfOthers(response, prev.added)
           = EntriesOfOthers(prev.response, prev.added)

(***************************************************************************)
(* C11: the third extraction rule                                          *)
(***************************************************************************)
\* the names of ExtractNames whose lower case has " sop " in it
SpacedSopNames == {Name_st3_sop_dev, Name_ifs_sop_x, Name_a_SOP_b}

\* C11 as stated: for an action whose lowercased name contains " sop ", the
\* extractor returns the non-empty rvc_obs_path then the non-empty
\* config_obs_path, for every action_type and every product key.
C11_SpacedSopAlways ==
    (ExtractReturned /\ call.proc_act_name \in SpacedSopNames) =>
        returned.value = Present(call.result, "rvc_obs_path")
                         \o Present(call.result, "config_obs_path")

\* C11: for an action whose lowercased name contains " sop ", whose
\* action_type is not harz_package_and_upload and whose name has no IFS in
\* it, the extractor returns the non-empty rvc_obs_path then the non-empty
\* config_obs_path, whatever the product key.
C11_SpacedSopRule ==
    (/\ ExtractReturned
     /\ call.proc_act_name \in SpacedSopNames \ IfsNames
     /\ call.action_type # "harz_package_and_upload") =>
        returned.value = Present(call.result, "rvc_obs_path")
                         \o Present(call.result, "config_obs_path")

\* C11 witness: "a SOP b", not a harz action, every field set, returns rvc
\* then config
C11_Witness ==
    /\ ExtractReturned
    /\ call.proc_act_name = Name_a_SOP_b
    /\ call.action_type = "build"
    /\ call.result = FieldValue
    /\ returned.value = << <<"r">>, <<"c">> >>

(***************************************************************************)
(* generate_dynamic_target_path called alone, for every table of family    *)
(* base paths, product key and date version below.                         *)
(***************************************************************************)
BaseST3 == <<"b","a","s","e","/","S","T","3","/">>

BaseST35 == <<"b","a","s","e","/","S","T","3","5","/">>

\* both families; one family only; a family whose base path is the empty string
BasePathTables ==
    {(ST3 :> BaseST3) @@ (ST35 :> BaseST35),
     (ST3 :> BaseST3),
     (ST35 :> BaseST35),
     (ST3 :> <<>>) @@ (ST35 :> BaseST35)}

ST3_PROD_DEV == <<"S","T","3","_","P","R","O","D","_","D","E","V">>

X_ST3_DEV == <<"X","_","S","T","3","_","D","E","V">>

st35_prod == <<"s","t","3","5","_","p","r","o","d">>

TargetKeys ==
    {ST3_DEV, ST3_PROD, ST35_DEV, ST35_PROD, ST3_PROD_json, ST4_DEV, ST3_TEST,
     ST3_PROD_DEV, X_ST3_DEV, st35_prod}

Date_2025 == <<"2","0","2","5","-","0","1","-","0","1","/">>

Date_d1 == <<"/","d","1","/">>

Date_bare == <<"d","1">>

Date_slashes == <<"/","/","d","1","/","/">>

Date_inner == <<"a","/","b">>

Date_slash == <<"/">>

TargetDates == {Date_2025, Date_d1, Date_bare, Date_slashes, Date_inner, Date_slash, <<>>}

TargetCalls ==
    [fn : {"generate_dynamic_target_path"}, base_paths : BasePathTables,
     product_key : TargetKeys, date_version : TargetDates]

InitTarget ==
    /\ environ = None
    /\ dotenv_file = None
    /\ HandlerIdle
    /\ call \in TargetCalls
    /\ returned = NotReturned

GenerateTarget ==
    /\ call.fn = "generate_dynamic_target_path"
    /\ ~returned.done
    /\ returned' =
          [done |-> TRUE,
           value |-> generate_dynamic_target_path_in(call.base_paths, call.product_key,
                                                     call.date_version)]
    /\ UNCHANGED <<environ, dotenv_file, pc, request, scratch, prev, call>>

NextTarget == GenerateTarget

SpecTarget == InitTarget /\ [][NextTarget]_vars

\* the family of each key of TargetKeys, None when it starts with neither
FamilyOfKey ==
    (ST3_DEV :> ST3) @@ (ST3_PROD :> ST3) @@ (ST35_DEV :> ST35) @@ (ST35_PROD :> ST35) @@
    (ST3_PROD_json :> ST3) @@ (ST4_DEV :> None) @@ (ST3_TEST :> ST3) @@
    (ST3_PROD_DEV :> ST3) @@ (X_ST3_DEV :> None) @@ (st35_prod :> None)

\* the environment segment of each key of TargetKeys: "dev/" with DEV in
\* the key, otherwise "prod/" with PROD in it, otherwise None
SegmentOfKey ==
    (ST3_DEV :> <<"d","e","v","/">>) @@ (ST3_PROD :> <<"p","r","o","d","/">>) @@
    (ST35_DEV :> <<"d","e","v","/">>) @@ (ST35_PROD :> <<"p","r","o","d","/">>) @@
    (ST3_PROD_json :> <<"p","r","o","d","/">>) @@ (ST4_DEV :> <<"d","e","v","/">>) @@
    (ST3_TEST :> None) @@ (ST3_PROD_DEV :> <<"d","e","v","/">>) @@
    (X_ST3_DEV :> <<"d","e","v","/">>) @@ (st35_prod :> None)

\* each date version of TargetDates without its leading and trailing "/"
StrippedDate ==
    (Date_2025 :> <<"2","0","2","5","-","0","1","-","0","1">>) @@
    (Date_d1 :> <<"d","1">>) @@ (Date_bare :> <<"d","1">>) @@
    (Date_slashes :> <<"d","1">>) @@ (Date_inner :> <<"a","/","b">>) @@
    (Date_slash :> <<>>) @@ (<<>> :> <<>>)

TargetReturned == returned.done /\ call.fn = "generate_dynamic_target_path"

\* the family of the call's key has a base path in the call's table (an
\* empty string is no base path)
BaseConfigured ==
    /\ FamilyOfKey[call.product_key] \in DOMAIN call.base_paths
    /\ call.base_paths[FamilyOfKey[call.product_key]] # <<>>

\* C12: generate_dynamic_target_path(key, dateVersion) returns the base
\* path of the key's family, then the environment segment, then dateVersion
\* without its leading and trailing "/", then "/"; it returns None exactly
\* when the key starts with neither ST35 nor ST3, the family has no base
\* path in the table, or the key contains neither DEV nor PROD.
C12_TargetPath ==
    TargetReturned =>
        returned.value =
            IF \/ FamilyOfKey[call.product_key] = None
               \/ ~BaseConfigured
               \/ SegmentOfKey[call.product_key] = None
            THEN None
            ELSE call.base_paths[FamilyOfKey[call.product_key]]
                 \o SegmentOfKey[call.product_key]
                 \o StrippedDate[call.date_version] \o <<"/">>

\* C12 witness: resolve("ST35_PROD", "2025-01-01/") with base path
\* "base/ST35/" gives "base/ST35/prod/2025-01-01/"
C12_Witness ==
    /\ TargetReturned
    /\ call.product_key = ST35_PROD
    /\ call.date_version = Date_2025
    /\ call.base_paths = (ST3 :> BaseST3) @@ (ST35 :> BaseST35)
    /\ returned.value = <<"b","a","s","e","/","S","T","3","5","/","p","r","o","d","/",
                          "2","0","2","5","-","0","1","-","0","1","/">>

(***************************************************************************)
(* C13: no token                                                           *)
(***************************************************************************)
\* C13: a request with no non-blank custom token, while the environment
\* holds no token, goes from Authenticating to Failed with HTTP 401 and to
\* no other state: no pipeline-API call, no task and no upload call is made,
\* whatever products are requested.
C13_NoTokenFailsFast ==
    (Handling /\ ~TokenAvailable) =>
        /\ pc \in {"Authenticating", "Failed"}
        /\ pc = "Failed" => http_error = 401 /\ response = <<>>
        /\ ep_calls = <<>>
        /\ upload_tasks = <<>>
        /\ upload_calls = <<>>

\* C13 witness: a blank custom token, nothing in the environment, a dynamic
\* and a fixed-path product requested, answered 401
C13_Witness ==
    /\ pc = "Failed"
    /\ http_error = 401
    /\ environ = None
    /\ request.custom_token = <<" ">>
    /\ request.products = <<ST3_DEV, ST3_DEV_json>>
    /\ ep_calls = <<>>
    /\ upload_calls = <<>>

(***************************************************************************)
(* C14: a failed pipeline fetch                                            *)
(***************************************************************************)
\* the pipeline API was called and did not answer with a document
FetchFailed == ep_answers # <<>> /\ ep_answers[Len(ep_answers)].kind # "json"

\* C14: when the pipeline fetch fails (timeout, 401/403, another error
\* status, or any other exception) the request is in Failed, never in
\* BuildingTasks or Uploading: no task is built and no upload call is made
\* after it, and the pipeline API is called at most once per request.
C14_FetchFailureEndsRequest ==
    /\ Len(ep_calls) <= 1
    /\ Len(ep_answers) = Len(ep_calls)
    /\ FetchFailed =>
          /\ pc = "Failed"
          /\ upload_tasks = <<>>
          /\ upload_calls = <<>>
          /\ upload_results = <<>>
          /\ \/ ep_answers[1].kind = "timeout" /\ http_error = 504
             \/ ep_answers[1].kind = "http_error"
                /\ http_error = ep_answers[1].status_code
             \/ ep_answers[1].kind = "exception" /\ http_error = 0

\* C14 witness: the pipeline call raised a connection error while a
\* fixed-path product, which needs no pipeline data, was also requested
C14_Witness ==
    /\ pc = "Failed"
    /\ ep_answers = <<[kind |-> "exception", text |-> "ConnectionError"]>>
    /\ request.products = <<ST3_DEV, ST3_DEV_json>>
    /\ upload_calls = <<>>

(***************************************************************************)
(* C15: dynamic products without a usable pipeline URL                     *)
(***************************************************************************)
\* the pipeline URL with a /tasks/ segment that has no hexadecimal id
UrlWithoutId == <<"e","p","/","t","a","s","k","s","/","x","9">>

\* C15: a request with at least one product that is not a fixed-path
\* product, whose pipeline URL is empty or has no /tasks/<hex-id> segment,
\* ends with a list of error entries (empty URL) or with HTTP 400 (no id) or
\* 401 (no token), and neither the pipeline API nor the upload service is
\* called at any point of it.
C15_UnusableUrlStopsEarly ==
    (/\ Handling
     /\ ~AllFixed
     /\ request.pipeline_url \in {<<>>, UrlWithoutId}) =>
        /\ pc \in {"Authenticating", "FetchingPipelineData", "Failed"}
        /\ ep_calls = <<>>
        /\ upload_tasks = <<>>
        /\ upload_calls = <<>>
        /\ pc = "Failed" =>
              \/ http_error = 401 /\ ~TokenAvailable /\ response = <<>>
              \/ /\ http_error = 400
                 /\ request.pipeline_url = UrlWithoutId
                 /\ response = <<>>
              \/ /\ http_error = 0
                 /\ request.pipeline_url = <<>>
                 /\ response # <<>>
                 /\ \A i \in 1..Len(response) : response[i].status = "error"

\* C15 witness: a dynamic and a fixed-path product, a URL whose /tasks/
\* segment is not hexadecimal, answered 400
C15_Witness ==
    /\ pc = "Failed"
    /\ http_error = 400
    /\ request.products = <<ST3_DEV_json, ST3_DEV>>
    /\ request.pipeline_url = UrlWithoutId
    /\ ep_calls = <<>>
    /\ upload_calls = <<>>

(***************************************************************************)
(* build_upload_tasks called alone, on every document of up to MaxActions  *)
(* actions and every list of up to MaxProducts products below.             *)
(***************************************************************************)
MaxActions == 2

SopBothAction ==
    [proc_act_name |-> <<"S","T","3"," ","D","E","V"," ","S","O","P">>,
     action_type |-> "harz_package_and_upload",
     result |-> [shadow_obs_path |-> <<"o","/","s">>,
                 package_obs_path |-> <<"o","/","p">>]]

SpacedSopAction ==
    [proc_act_name |-> <<"s","t","3"," ","s","o","p"," ","d","e","v">>,
     action_type |-> "build",
     result |-> [rvc_obs_path |-> <<"o","/","r">>, config_obs_path |-> <<"o","/","c">>]]

BuildActions == {SopBothAction, IfsAction, SpacedSopAction, OtherAction}

BuildDocs == {EmptyDict} \cup {Doc(actions) : actions \in SeqsUpTo(BuildActions, MaxActions)}

BuildKeys == {ST3_DEV, ST3_PROD, ST3_DEV_json, ST4_DEV}

BuildCalls ==
    [fn : {"build_upload_tasks"}, api_data : BuildDocs,
     requested_products : SeqsUpTo(BuildKeys, MaxProducts), date_version : DateVersions]

InitBuild ==
    /\ environ = None
    /\ dotenv_file = None
    /\ HandlerIdle
    /\ call \in BuildCalls
    /\ returned = NotReturned

Build ==
    /\ call.fn = "build_upload_tasks"
    /\ ~returned.done
    /\ returned' =
          [done |-> TRUE,
           value |-> build_upload_tasks(call.api_data, call.requested_products,
                                        call.date_version)]
    /\ UNCHANGED <<environ, dotenv_file, pc, request, scratch, prev, call>>

NextBuild == Build

SpecBuild == InitBuild /\ [][NextBuild]_vars

\* the source paths one action of BuildActions gives one key of BuildKeys
PathsFrom(action, key) ==
    CASE key = ST3_DEV /\ action = SopBothAction -> << <<"o","/","s">>, <<"o","/","p">> >>
      [] key = ST3_DEV /\ action = IfsAction -> << <<"o","/","l">> >>
      [] key = ST3_DEV /\ action = SpacedSopAction -> << <<"o","/","r">>, <<"o","/","c">> >>
      [] key = ST3_PROD /\ action = IfsAction -> << <<"o","/","l">>, <<"o","/","c">> >>
      [] OTHER -> <<>>

\* the source paths of a key over the actions of a document, in document order
RECURSIVE PathsOver(_, _)
PathsOver(actions, key) ==
    IF actions = <<>> THEN <<>>
    ELSE PathsFrom(Head(actions), key) \o PathsOver(Tail(actions), key)

\* the destination of each key of BuildKeys for date version "/d1/"
TargetOf ==
    (ST3_DEV :> <<"b","a","s","e","/","S","T","3","/","d","e","v","/","d","1","/">>) @@
    (ST3_PROD :> <<"b","a","s","e","/","S","T","3","/","p","r","o","d","/","d","1","/">>) @@
    (ST3_DEV_json :> <<"b","a","s","e","/","S","T","3","/","d","e","v","/","d","1","/">>)

\* the source paths of one requested key
SourcesOf(actions, key) ==
    IF key = ST3_DEV_json THEN <<FIXED_JSON_PATHS[ST3_DEV_json]>>
    ELSE PathsOver(actions, key)

\* the tasks of a product list: product by product in request order
RECURSIVE TasksFor(_, _)
TasksFor(actions, products) ==
    IF products = <<>> THEN <<>>
    ELSE LET key == Head(products)
             sources == SourcesOf(actions, key)
         IN  [i \in 1..Len(sources) |->
                 [product_key |-> key, obs_path |-> sources[i],
                  target_path |-> TargetOf[key]]]
             \o TasksFor(actions, Tail(products))

\* the number of source paths of a product list
RECURSIVE PathCount(_, _)
PathCount(actions, products) ==
    IF products = <<>> THEN 0
    ELSE Len(SourcesOf(actions, Head(products))) + PathCount(actions, Tail(products))

BuildReturned == returned.done /\ call.fn = "build_upload_tasks"

\* C16: build_upload_tasks returns the tasks grouped by requested product
\* in request order; within a dynamic product one task per extracted source
\* path, in the order of the document's actions and, within an action, of
\* the extraction rule; every matching action contributes, equal paths are
\* all kept, and there are as many tasks as paths extracted.
C16_TaskOrder ==
    BuildReturned =>
        /\ returned.value = TasksFor(ActionList(call.api_data), call.requested_products)
        /\ Len(returned.value)
              = PathCount(ActionList(call.api_data), call.requested_products)

\* C16 witness: a fixed-path product then ST3_DEV, the document holding
\* "ST3 IFS" twice: the lib path is a task twice, after the fixed path
C16_Witness ==
    /\ BuildReturned
    /\ call.requested_products = <<ST3_DEV_json, ST3_DEV>>
    /\ call.api_data = Doc(<<IfsAction, IfsAction>>)
    /\ Len(returned.value) = 3
    /\ returned.value[1].obs_path = FIXED_JSON_PATHS[ST3_DEV_json]
    /\ returned.value[2].obs_path = <<"o","/","l">>
    /\ returned.value[3].obs_path = <<"o","/","l">>

(***************************************************************************)
(* C17, C18: the token across requests                                     *)
(***************************************************************************)
\* the request came with a custom token that is not blank
CustomTokenGiven == request.custom_token \notin {None, <<>>, <<" ">>}

\* C17: a request uses its custom token when it has a non-blank one and
\* otherwise the stored token, the one the credential file holds: once a
\* request has written T to the file, a later request without a custom token
\* uses T, and every pipeline-API call of a request carries the token the
\* request uses.
C17_TokenAcrossRequests ==
    (Handling /\ pc # "Authenticating") =>
        /\ token_for_this_request
              = IF CustomTokenGiven THEN request.custom_token ELSE dotenv_file
        /\ \A i \in 1..Len(ep_calls) : ep_calls[i].token = token_for_this_request

\* C18: the credential file is written only for a request whose custom
\* token is not blank and differs from the token the file holds at that
\* moment: every write of a request puts the request's custom token in the
\* place of a different one, so a request with no or a blank custom token,
\* or with the token an earlier request persisted, writes nothing.
C18_FileWrittenOnlyForNewToken ==
    \A i \in 1..Len(dotenv_writes) :
        /\ CustomTokenGiven
        /\ dotenv_writes[i].token = request.custom_token
        /\ dotenv_writes[i].token # dotenv_writes[i].replaced

(***************************************************************************)
(* C19, C20: the outcomes and the summaries                                *)
(***************************************************************************)
\* the entries of the returned list that take outcome j: main.py 251 gives
\* entry i every outcome whose product is request.products[i]
SummariesOf(j) ==
    {i \in 1..Len(request.products) : request.products[i] = upload_results[j].product}

\* the failed items listed over all entries of a returned list
RECURSIVE FailedListed(_)
FailedListed(list) ==
    IF list = <<>> THEN 0
    ELSE Len(GetOr(Head(list), "failed_files", <<>>)) + FailedListed(Tail(list))

\* the outcomes that are not a success
FailedOutcomes == {j \in 1..Len(upload_results) : upload_results[j].status # "success"}

\* C19: in a finished request every upload outcome is taken by exactly one
\* product summary, also when the products list repeats a key, so the
\* outcomes counted over all summaries are as many as the tasks executed:
\* the failed items the summaries list are as many as the failed outcomes.
C19_EachOutcomeOnce ==
    pc = "Done" =>
        /\ \A j \in 1..Len(upload_results) : Cardinality(SummariesOf(j)) = 1
        /\ FailedListed(response) = Cardinality(FailedOutcomes)

\* the outcomes of product k with the given success
OutcomesWith(k, success) ==
    {j \in OutcomesOf(k) : (upload_results[j].status = "success") = success}

\* C20: in a finished request the counts a summary's message states are the
\* product's outcome counts: the file count of a success summary is the
\* number of the product's outcomes, the success and failure counts of a
\* failure summary are the numbers of its successful and failed outcomes,
\* and these add up to the tasks built for the product.
C20_StatedCounts ==
    pc = "Done" =>
        \A i \in 1..Len(response) :
            LET k == response[i].product
                message == response[i].message
            IN  /\ "files" \in DOMAIN message =>
                      message.files = Cardinality(OutcomesOf(k))
                /\ "success_count" \in DOMAIN message =>
                      /\ message.success_count = Cardinality(OutcomesWith(k, TRUE))
                      /\ message.error_count = Cardinality(OutcomesWith(k, FALSE))
                      /\ message.success_count + message.error_count
                            = Cardinality(TasksOf(k))

=============================================================================
